---- MODULE Spec2Model ----
(***************************************************************************)
(* Model of plotly/io/_orca.py: the supervisor of the local orca rendering *)
(* server.  The state is the module's singletons (config._props,           *)
(* status._props, __orca_state, __orca_lock), the child processes the      *)
(* module has spawned, the threading.Timer objects it has started, and     *)
(* the position of every caller thread inside the function it runs.        *)
(*                                                                         *)
(* Python's None is the empty tuple and a value v is the tuple <<v>>, so   *)
(* that optional integers and optional strings compare without type        *)
(* errors.  Strings that the code inspects character by character (image   *)
(* formats) are sequences of one-character strings.                        *)
(***************************************************************************)
EXTENDS Integers, Sequences, FiniteSets, TLC

\* ------------------------------------------------------------------ bounds
NThreads == 2        \* caller threads
MaxTimers == 2       \* timer threads alive at the same time
MaxProcs == 2        \* server processes alive at the same time
MaxFormatLen == 3    \* characters of the strings tried as image formats

\* ------------------------------------------------------- program constants
wait_random_min == 5
wait_random_max == 10
stop_max_delay == 10000

None == <<>>
Some(v) == <<v>>
Val(o) == o[1]

Callers == 1..NThreads

\* Python truthiness of an optional string: neither None nor ''.
Truthy(o) == o # None /\ Val(o) # ""

\* A value of a Python type that the setter it is given to does not accept
\* (a string for port, a list for executable).  The isinstance test of the
\* setter is all the program does with it.
WrongType == <<"<wrong type>", "<value>">>
IsWrongType(v) == Len(v) = 2

\* ----------------------------------------------------------- image formats
valid_formats ==
    { <<"p","n","g">>, <<"j","p","e","g">>, <<"w","e","b","p">>,
      <<"s","v","g">>, <<"p","d","f">>, <<"e","p","s">> }

\* _format_conversions: every valid format to itself, and jpg to jpeg.
_format_conversions ==
    [f \in valid_formats \cup { <<"j","p","g">> } |->
        IF f = <<"j","p","g">> THEN <<"j","p","e","g">> ELSE f]

UpperCase == {"A","B","C","D","E","F","G","H","I","J","K","L","M",
              "N","O","P","Q","R","S","T","U","V","W","X","Y","Z"}

\* str.lower() on one character.
LowerChar(c) ==
    CASE c = "A" -> "a" [] c = "B" -> "b" [] c = "C" -> "c" [] c = "D" -> "d"
      [] c = "E" -> "e" [] c = "F" -> "f" [] c = "G" -> "g" [] c = "H" -> "h"
      [] c = "I" -> "i" [] c = "J" -> "j" [] c = "K" -> "k" [] c = "L" -> "l"
      [] c = "M" -> "m" [] c = "N" -> "n" [] c = "O" -> "o" [] c = "P" -> "p"
      [] c = "Q" -> "q" [] c = "R" -> "r" [] c = "S" -> "s" [] c = "T" -> "t"
      [] c = "U" -> "u" [] c = "V" -> "v" [] c = "W" -> "w" [] c = "X" -> "x"
      [] c = "Y" -> "y" [] c = "Z" -> "z" [] OTHER -> c

Lower(s) == [i \in 1..Len(s) |-> LowerChar(s[i])]

\* Values that are no strings (an int, a list), each written as its type.
NonStrings == {Some(<<"<int>">>), Some(<<"<list>">>)}

\* A _validate_coerce_format that keeps a leading dot.
_validate_coerce_format_KeepsDot(fmt) ==
    IF fmt = None THEN [ok |-> TRUE, val |-> None]
    ELSE IF fmt \in NonStrings \/ Val(fmt) = <<>>
    THEN [ok |-> FALSE, val |-> None]
    ELSE LET low == Lower(Val(fmt))
         IN  IF low \in DOMAIN _format_conversions
             THEN [ok |-> TRUE, val |-> Some(_format_conversions[low])]
             ELSE [ok |-> FALSE, val |-> None]

\* The result of _validate_coerce_format on an optional value:
\* [ok |-> FALSE] stands for the ValueError.
_validate_coerce_format(fmt) ==
    IF fmt = None THEN [ok |-> TRUE, val |-> None]
    ELSE IF fmt \in NonStrings \/ Val(fmt) = <<>>
    THEN [ok |-> FALSE, val |-> None]
    ELSE LET low == Lower(Val(fmt))
             cut == IF low[1] = "." THEN Tail(low) ELSE low
         IN  IF cut \in DOMAIN _format_conversions
             THEN [ok |-> TRUE, val |-> Some(_format_conversions[cut])]
             ELSE [ok |-> FALSE, val |-> None]

\* ----------------------------------------------------------- configuration
PropNames == {"port", "executable", "timeout", "default_width",
              "default_height", "default_format", "default_scale",
              "topojson", "mathjax", "mapbox_access_token"}

\* The default each property getter passes to _props.get.
PropDefault(k) ==
    CASE k = "executable" -> Some("orca")
      [] k = "default_format" -> Some(<<"p","n","g">>)
      [] k = "default_scale" -> Some(1)
      [] k = "topojson" -> Some("package_data/topojson")
      [] k = "mathjax" -> Some("https://cdnjs.cloudflare.com/ajax/libs/mathjax/2.7.5/MathJax.js")
      [] OTHER -> None

\* config._constants['plotlyjs']
plotlyjs == Some("package_data/plotly.min.js")

\* The setters that end with shutdown_orca_server().
RestartProps == {"executable", "topojson", "mathjax", "mapbox_access_token"}

\* Ports _find_open_port may return, and the path `which` resolves a name to.
EphemeralPorts == {49152}
Which(name) == "/usr/bin/" \o name

VARIABLES
    props,        \* config._props: a dict, keys are the properties assigned so far
    status,       \* status._props
    orca_state,   \* __orca_state: proc, shutdown_timer, port
    lock,         \* __orca_lock: 0 when free, else the thread holding it
                  \*   (a caller t is t, the thread of timer k is -k)
    procs,        \* procs[pid]: "orphans" for a spawned process that has
                  \*   exited and left descendants that run, "alive" for a
                  \*   spawned process that has not
                  \*   exited, "none" when no process has that pid
    tpc,          \* tpc[k]: where the thread of timer k is, "none" when there
                  \*   is no such thread (never started, cancelled or ended)
    pc,           \* pc[t]: where caller thread t is
    op,           \* op[t]: the call thread t is running
    loc,          \* loc[t]: the locals of the functions thread t is in
    files,        \* the file system: the content of every file that exists
    hist          \* history, written by no action of the program: see the
                  \*   specifications below

vars ==
    <<props, status, orca_state, lock, procs, tpc, pc, op, loc, files, hist>>

\* A caller thread between two calls.
Rest == {"idle", "returned", "raised"}

\* config.<k>
Get(k) == IF k \in DOMAIN props THEN props[k] ELSE PropDefault(k)

NoOp ==
    [name |-> "none", key |-> "", val |-> None, file |-> None, items |-> <<>>]
NoLocals == [executable |-> None, cmd_list |-> None, format |-> None,
             elapsed |-> 0, content |-> None]
\* OrcaStatus._props as the class defines it.
InitStatus == [state |-> "unvalidated", executable |-> None, version |-> None,
               pid |-> None, port |-> None, command |-> None]

NoHist ==
    [call |-> NoOp, status |-> InitStatus, old |-> None, stale |-> {},
     failed |-> FALSE, props |-> <<>>]

\* No file exists.
NoFiles == [path \in {} |-> None]

\* The module after import.
Boot ==
    /\ props = << >>
    /\ status = InitStatus
    /\ orca_state = [proc |-> None, shutdown_timer |-> None, port |-> None]
    /\ lock = 0
    /\ procs = [p \in 1..MaxProcs |-> "none"]
    /\ tpc = [k \in 1..MaxTimers |-> "none"]
    /\ pc = [t \in Callers |-> "idle"]
    /\ op = [t \in Callers |-> NoOp]
    /\ loc = [t \in Callers |-> NoLocals]
    /\ hist = NoHist

Init ==
    /\ Boot
    /\ files = NoFiles

\* --------------------------------------------------------- thread plumbing
PcOf(self) == IF self > 0 THEN pc[self] ELSE tpc[-self]

\* Caller t moves to label l; a call that ends leaves no call record behind.
Jump(t, l) ==
    /\ pc' = [pc EXCEPT ![t] = l]
    /\ op' = IF l \in Rest THEN [op EXCEPT ![t] = NoOp] ELSE op

\* Thread self moves to label l.
Goto(self, l) ==
    IF self > 0
    THEN Jump(self, l) /\ UNCHANGED tpc
    ELSE tpc' = [tpc EXCEPT ![-self] = l] /\ UNCHANGED <<pc, op>>

\* A timer thread that is inside its callback.
InCallback(k) == tpc[k] \in {"s_lock", "s_status"}

\* The timer threads after Timer.cancel() on `timer`: a thread still waiting
\* for its interval finds the finished event set and ends without calling
\* the function; on a thread that is in its callback, or has ended, cancel
\* has no effect.
Cancel(timer, threads) ==
    IF timer # None /\ threads[Val(timer)] = "waiting"
    THEN [threads EXCEPT ![Val(timer)] = "none"]
    ELSE threads

\* Where a caller continues when shutdown_orca_server() returns.
AfterShutdown(o) ==
    CASE o.name \in {"reset", "restore_defaults"} -> "r_executable"
      [] o.name = "update" -> "u_apply"
      [] OTHER -> "returned"

\* Where a caller continues when validate_orca_executable() returns.
AfterValidate(o) ==
    IF o.name = "validate" THEN "returned" ELSE "e_lock"

\* Where a caller continues when ensure_orca_server() returns.
AfterEnsure(o) ==
    IF o.name \in {"to_image", "write_image"} THEN "i_format" ELSE "returned"

\* Where a caller continues when to_image() returns.
AfterImage(o) ==
    IF o.name = "write_image" THEN "w_write" ELSE "returned"

\* Thread self raises out of its call; a timer thread whose callback raises
\* ends.  `threads` is tpc as the step leaves the other timer threads.
Raise(self, threads) ==
    IF self > 0
    THEN Jump(self, "raised") /\ tpc' = threads
    ELSE tpc' = [threads EXCEPT ![-self] = "none"] /\ UNCHANGED <<pc, op>>

\* Thread self leaves shutdown_orca_server() normally; a timer thread then
\* ends.
ShutdownReturn(self, threads) ==
    IF self > 0
    THEN Jump(self, AfterShutdown(op[self])) /\ tpc' = threads
    ELSE tpc' = [threads EXCEPT ![-self] = "none"] /\ UNCHANGED <<pc, op>>

\* ------------------------------------------------- shutdown_orca_server()
\* A first check that resets the status also when no process is active.
FirstCheck_ResetsStatus(self) ==
    /\ IF orca_state.proc = None
       THEN /\ ShutdownReturn(self, tpc)
            /\ status' = [status EXCEPT !.state = "validated", !.pid = None,
                                        !.port = None, !.command = None]
       ELSE /\ Goto(self, "s_lock")
            /\ UNCHANGED status
    /\ UNCHANGED <<props, orca_state, lock, procs, loc>>
    /\ UNCHANGED files

\* Line 931: the first check of __orca_state['proc'], without the lock.
FirstCheck(self) ==
    /\ IF orca_state.proc = None
       THEN ShutdownReturn(self, tpc)
       ELSE Goto(self, "s_lock")
    /\ UNCHANGED <<props, status, orca_state, lock, procs, loc>>
    /\ UNCHANGED files

ShutdownCheck(t) ==
    /\ pc[t] = "s_check"
    /\ FirstCheck(t)

\* Lines 932-958: take __orca_lock, check again, then terminate the
\* descendants and the process, wait for it, and clear proc, the timer and
\* the port.  The psutil calls raise when the process cannot be looked up or
\* signalled; the exception leaves the with block (the lock is released)
\* with nothing changed.  The descendants are sent terminate() and are not
\* waited for: `left` says what is left of the process when wait() returns,
\* "none" when its descendants have exited as well, "orphans" when one of
\* them is still running.
ShutdownKillWith(self, left) ==
    /\ PcOf(self) = "s_lock"
    /\ lock = 0
    /\ IF orca_state.proc = None
       THEN /\ UNCHANGED lock
            /\ ShutdownReturn(self, tpc)
            /\ UNCHANGED <<orca_state, procs>>
       ELSE \E psutil_ok \in BOOLEAN :
              IF psutil_ok
              THEN /\ procs' = [procs EXCEPT ![Val(orca_state.proc)] = left]
                   /\ orca_state' = [proc |-> None, shutdown_timer |-> None,
                                     port |-> None]
                   /\ IF self > 0
                      THEN /\ Jump(self, "s_status")
                           /\ tpc' = Cancel(orca_state.shutdown_timer, tpc)
                      ELSE /\ tpc' = [Cancel(orca_state.shutdown_timer, tpc)
                                        EXCEPT ![-self] = "s_status"]
                           /\ UNCHANGED <<pc, op>>
                   /\ lock' = self
              ELSE /\ UNCHANGED lock
                   /\ Raise(self, tpc)
                   /\ UNCHANGED <<orca_state, procs>>
    /\ UNCHANGED <<props, status, loc>>
    /\ UNCHANGED files

\* A shutdown that clears the handle of a process it has not terminated.
ShutdownKill_DropsHandle(self) == ShutdownKillWith(self, "alive")

\* Lines 932-958 with descendants that exit as soon as they are signalled.
ShutdownKill(self) == ShutdownKillWith(self, "none")

\* A descendant that was left running exits.
OrphanExit(p) ==
    /\ procs[p] = "orphans"
    /\ procs' = [procs EXCEPT ![p] = "none"]
    /\ UNCHANGED <<props, status, orca_state, lock, tpc, pc, op, loc>>
    /\ UNCHANGED files

\* A status reset that forgets status.port.
ShutdownStatus_KeepsPort(self) ==
    /\ PcOf(self) = "s_status"
    /\ lock = self
    /\ status' = [status EXCEPT !.state = "validated", !.pid = None,
                                !.command = None]
    /\ lock' = 0
    /\ ShutdownReturn(self, tpc)
    /\ UNCHANGED <<props, orca_state, procs, loc>>
    /\ UNCHANGED files

\* Lines 960-965: reset the status the user sees, and leave the with block.
ShutdownStatus(self) ==
    /\ PcOf(self) = "s_status"
    /\ lock = self
    /\ status' = [status EXCEPT !.state = "validated", !.pid = None,
                                !.port = None, !.command = None]
    /\ lock' = 0
    /\ ShutdownReturn(self, tpc)
    /\ UNCHANGED <<props, orca_state, procs, loc>>
    /\ UNCHANGED files

\* -------------------------------------------------------- threading.Timer
\* Timer.run: the interval has passed and the finished event is not set, so
\* the thread calls shutdown_orca_server and makes its first check.  The
\* interval is not measured: a started timer may fire at any later moment.
TimerFire(k) ==
    /\ tpc[k] = "waiting"
    /\ FirstCheck(-k)

\* ------------------------------------------- validate_orca_executable()
\* Line 786: return at once unless the state is 'unvalidated'.
ValidateCheck(t) ==
    /\ pc[t] = "v_check"
    /\ Jump(t, IF status.state # "unvalidated"
               THEN AfterValidate(op[t]) ELSE "v_probe")
    /\ UNCHANGED <<props, status, orca_state, lock, procs, tpc, loc>>
    /\ UNCHANGED files

\* What the file system and the two probes can answer for a configured name:
\* the name is found, only orca.js is found (tried for the default name
\* alone), nothing is found, or a probe fails.
ProbeOutcomes(name) ==
    {"found", "not_found", "probe_failed"}
        \cup (IF name = "orca" THEN {"found_orca_js"} ELSE {})

\* A validation that records the path it found before it runs the probes.
ValidateProbe_RecordsFirst(t) ==
    /\ pc[t] = "v_probe"
    /\ \E outcome \in ProbeOutcomes(Val(Get("executable"))) :
         IF outcome = "not_found"
         THEN /\ Jump(t, "raised")
              /\ UNCHANGED <<loc, status>>
         ELSE IF outcome = "probe_failed"
         THEN /\ Jump(t, "raised")
              /\ status' = [status EXCEPT !.executable =
                              Some(Which(Val(Get("executable"))))]
              /\ UNCHANGED loc
         ELSE /\ Jump(t, "v_executable")
              /\ loc' = [loc EXCEPT ![t].executable =
                           Some(IF outcome = "found_orca_js"
                                THEN Which("orca.js")
                                ELSE Which(Val(Get("executable"))))]
              /\ UNCHANGED status
    /\ UNCHANGED <<props, orca_state, lock, procs, tpc>>
    /\ UNCHANGED files

\* Lines 813-879: which(config.executable), which('orca.js'), --help and
\* --version.  Every failure raises ValueError before status is touched.
ValidateProbe(t) ==
    /\ pc[t] = "v_probe"
    /\ \E outcome \in ProbeOutcomes(Val(Get("executable"))) :
         IF outcome \in {"not_found", "probe_failed"}
         THEN /\ Jump(t, "raised")
              /\ UNCHANGED loc
         ELSE /\ Jump(t, "v_executable")
              /\ loc' = [loc EXCEPT ![t].executable =
                           Some(IF outcome = "found_orca_js"
                                THEN Which("orca.js")
                                ELSE Which(Val(Get("executable"))))]
    /\ UNCHANGED <<props, status, orca_state, lock, procs, tpc>>
    /\ UNCHANGED files

\* Line 882.
ValidateSetExecutable(t) ==
    /\ pc[t] = "v_executable"
    /\ status' = [status EXCEPT !.executable = loc[t].executable]
    /\ loc' = [loc EXCEPT ![t].executable = None]
    /\ Jump(t, "v_version")
    /\ UNCHANGED <<props, orca_state, lock, procs, tpc>>
    /\ UNCHANGED files

\* Line 883.
ValidateSetVersion(t) ==
    /\ pc[t] = "v_version"
    /\ status' = [status EXCEPT !.version = Some("1.1.1")]
    /\ Jump(t, "v_state")
    /\ UNCHANGED <<props, orca_state, lock, procs, tpc, loc>>
    /\ UNCHANGED files

\* Line 884.
ValidateSetState(t) ==
    /\ pc[t] = "v_state"
    /\ status' = [status EXCEPT !.state = "validated"]
    /\ Jump(t, AfterValidate(op[t]))
    /\ UNCHANGED <<props, orca_state, lock, procs, tpc, loc>>
    /\ UNCHANGED files

\* ---------------------------------------------------- ensure_orca_server()
\* Lines 992-993.
EnsureCheck(t) ==
    /\ pc[t] = "e_check"
    /\ Jump(t, IF status.state = "unvalidated" THEN "v_check" ELSE "e_lock")
    /\ UNCHANGED <<props, status, orca_state, lock, procs, tpc, loc>>
    /\ UNCHANGED files

\* A launch command with the mathjax pair before the topojson pair.
CommandList_MathjaxFirst(port) ==
    <<Val(Get("executable")), "serve", "-p", ToString(port), "--graph-only">>
      \o (IF Truthy(plotlyjs) THEN <<"--plotly", Val(plotlyjs)>> ELSE <<>>)
      \o (IF Truthy(Get("mathjax"))
          THEN <<"--mathjax", Val(Get("mathjax"))>> ELSE <<>>)
      \o (IF Truthy(Get("topojson"))
          THEN <<"--topojson", Val(Get("topojson"))>> ELSE <<>>)
      \o (IF Truthy(Get("mapbox_access_token"))
          THEN <<"--mapbox-access-token", Val(Get("mapbox_access_token"))>>
          ELSE <<>>)

\* Lines 1012-1027: the launch command for a port.
CommandList(port) ==
    <<Val(Get("executable")), "serve", "-p", ToString(port), "--graph-only">>
      \o (IF Truthy(plotlyjs) THEN <<"--plotly", Val(plotlyjs)>> ELSE <<>>)
      \o (IF Truthy(Get("topojson"))
          THEN <<"--topojson", Val(Get("topojson"))>> ELSE <<>>)
      \o (IF Truthy(Get("mathjax"))
          THEN <<"--mathjax", Val(Get("mathjax"))>> ELSE <<>>)
      \o (IF Truthy(Get("mapbox_access_token"))
          THEN <<"--mapbox-access-token", Val(Get("mapbox_access_token"))>>
          ELSE <<>>)

\* An ensure_orca_server that launches without looking at
\* __orca_state['proc'].
EnsureCommand_AlwaysLaunches(t) ==
    /\ pc[t] = "e_lock"
    /\ lock = 0
    /\ lock' = t
    /\ tpc' = Cancel(orca_state.shutdown_timer, tpc)
    /\ \E port \in (IF Get("port") = None THEN EphemeralPorts
                     ELSE {Val(Get("port"))}) :
         /\ orca_state' = [orca_state EXCEPT !.port = Some(port)]
         /\ loc' = [loc EXCEPT ![t].cmd_list = Some(CommandList(port))]
         /\ Jump(t, "e_spawn")
    /\ UNCHANGED <<props, status, procs>>
    /\ UNCHANGED files

\* An ensure_orca_server that does not cancel the timer it finds.
EnsureCommand_KeepsTimer(t) ==
    /\ pc[t] = "e_lock"
    /\ lock = 0
    /\ lock' = t
    /\ tpc' = tpc
    /\ IF orca_state.proc = None
       THEN \E port \in (IF Get("port") = None THEN EphemeralPorts
                         ELSE {Val(Get("port"))}) :
              /\ orca_state' = [orca_state EXCEPT !.port = Some(port)]
              /\ loc' = [loc EXCEPT ![t].cmd_list = Some(CommandList(port))]
              /\ Jump(t, "e_spawn")
       ELSE /\ Jump(t, "e_timer")
            /\ UNCHANGED <<orca_state, loc>>
    /\ UNCHANGED <<props, status, procs>>
    /\ UNCHANGED files

\* Lines 997-1027: take __orca_lock and cancel the current timer; when no
\* process is active, pick the port and build the command from the
\* configuration.
EnsureCommand(t) ==
    /\ pc[t] = "e_lock"
    /\ lock = 0
    /\ lock' = t
    /\ tpc' = Cancel(orca_state.shutdown_timer, tpc)
    /\ IF orca_state.proc = None
       THEN \E port \in (IF Get("port") = None THEN EphemeralPorts
                         ELSE {Val(Get("port"))}) :
              /\ orca_state' = [orca_state EXCEPT !.port = Some(port)]
              /\ loc' = [loc EXCEPT ![t].cmd_list = Some(CommandList(port))]
              /\ Jump(t, "e_spawn")
       ELSE /\ Jump(t, "e_timer")
            /\ UNCHANGED <<orca_state, loc>>
    /\ UNCHANGED <<props, status, procs>>
    /\ UNCHANGED files

\* A launch whose exception leaves the lock held.
EnsureSpawn_KeepsLock(t) ==
    /\ pc[t] = "e_spawn"
    /\ lock = t
    /\ \E popen_ok \in BOOLEAN :
         IF popen_ok
         THEN /\ \E p \in 1..MaxProcs : procs[p] = "none"
              /\ LET pid == CHOOSE p \in 1..MaxProcs :
                              /\ procs[p] = "none"
                              /\ \A q \in 1..(p - 1) : procs[q] # "none"
                 IN  /\ procs' = [procs EXCEPT ![pid] = "alive"]
                     /\ orca_state' = [orca_state EXCEPT !.proc = Some(pid)]
                     /\ status' = [status EXCEPT !.state = "running",
                                                 !.pid = Some(pid),
                                                 !.port = orca_state.port,
                                                 !.command = loc[t].cmd_list]
              /\ Jump(t, "e_timer")
              /\ UNCHANGED lock
         ELSE /\ UNCHANGED lock
              /\ Jump(t, "raised")
              /\ UNCHANGED <<procs, orca_state, status>>
    /\ loc' = [loc EXCEPT ![t].cmd_list = None]
    /\ UNCHANGED <<props, tpc>>
    /\ UNCHANGED files

\* Lines 1031-1039: subprocess.Popen, then the status the user sees.  Popen
\* raises when the command cannot be executed; the exception leaves the with
\* block.  The new process gets a pid no live process has.
EnsureSpawn(t) ==
    /\ pc[t] = "e_spawn"
    /\ lock = t
    /\ \E popen_ok \in BOOLEAN :
         IF popen_ok
         THEN /\ \E p \in 1..MaxProcs : procs[p] = "none"
              /\ LET pid == CHOOSE p \in 1..MaxProcs :
                              /\ procs[p] = "none"
                              /\ \A q \in 1..(p - 1) : procs[q] # "none"
                 IN  /\ procs' = [procs EXCEPT ![pid] = "alive"]
                     /\ orca_state' = [orca_state EXCEPT !.proc = Some(pid)]
                     /\ status' = [status EXCEPT !.state = "running",
                                                 !.pid = Some(pid),
                                                 !.port = orca_state.port,
                                                 !.command = loc[t].cmd_list]
              /\ Jump(t, "e_timer")
              /\ UNCHANGED lock
         ELSE /\ lock' = 0
              /\ Jump(t, "raised")
              /\ UNCHANGED <<procs, orca_state, status>>
    /\ loc' = [loc EXCEPT ![t].cmd_list = None]
    /\ UNCHANGED <<props, tpc>>
    /\ UNCHANGED files

\* Lines 1042-1048: start a new timer when a timeout is configured, and leave
\* the with block.
EnsureTimer(t) ==
    /\ pc[t] = "e_timer"
    /\ lock = t
    /\ IF Get("timeout") # None
       THEN /\ \E k \in 1..MaxTimers : tpc[k] = "none"
            /\ LET new == CHOOSE k \in 1..MaxTimers :
                              /\ tpc[k] = "none"
                              /\ \A j \in 1..(k - 1) : tpc[j] # "none"
               IN  /\ tpc' = [tpc EXCEPT ![new] = "waiting"]
                   /\ orca_state' = [orca_state EXCEPT !.shutdown_timer = Some(new)]
       ELSE UNCHANGED <<tpc, orca_state>>
    /\ lock' = 0
    /\ Jump(t, AfterEnsure(op[t]))
    /\ UNCHANGED <<props, status, procs, loc>>
    /\ UNCHANGED files

\* ----------------------------------------------------- reset_orca_status()
\* Line 900, after shutdown_orca_server() has returned.
ResetExecutable(t) ==
    /\ pc[t] = "r_executable"
    /\ status' = [status EXCEPT !.executable = None]
    /\ Jump(t, "r_version")
    /\ UNCHANGED <<props, orca_state, lock, procs, tpc, loc>>
    /\ UNCHANGED files

\* Line 901.
ResetVersion(t) ==
    /\ pc[t] = "r_version"
    /\ status' = [status EXCEPT !.version = None]
    /\ Jump(t, "r_state")
    /\ UNCHANGED <<props, orca_state, lock, procs, tpc, loc>>
    /\ UNCHANGED files

\* Line 902.
ResetState(t) ==
    /\ pc[t] = "r_state"
    /\ status' = [status EXCEPT !.state = "unvalidated"]
    /\ Jump(t, "returned")
    /\ UNCHANGED <<props, orca_state, lock, procs, tpc, loc>>
    /\ UNCHANGED files

\* ------------------------------------------------------ the config setters
\* The value a setter stores: executable replaces a false value by 'orca',
\* default_format stores the coerced format.
Coerced(k, v) ==
    CASE k = "executable" -> IF Truthy(v) THEN v ELSE Some("orca")
      [] k = "default_format" -> _validate_coerce_format(v).val
      [] OTHER -> v

\* Whether the setter of k accepts v (it raises ValueError otherwise).
Accepts(k, v) ==
    IF k = "default_format" THEN _validate_coerce_format(v).ok
    ELSE ~IsWrongType(v)

\* A property setter: validate, store in _props, and for the properties of
\* RestartProps go on to shutdown_orca_server().
SetProperty(t) ==
    /\ pc[t] = "set_write"
    /\ IF Accepts(op[t].key, op[t].val)
       THEN /\ props' = [k \in DOMAIN props \cup {op[t].key} |->
                           IF k = op[t].key THEN Coerced(k, op[t].val)
                           ELSE props[k]]
            /\ Jump(t, IF op[t].key \in RestartProps THEN "s_check" ELSE "returned")
       ELSE /\ Jump(t, "raised")
            /\ UNCHANGED props
    /\ UNCHANGED <<status, orca_state, lock, procs, tpc, loc>>
    /\ UNCHANGED files

\* config.update(d): every key has to be in _props, the dict of the properties
\* assigned so far, or ValueError is raised.
UpdateKeys(t) ==
    /\ pc[t] = "u_keys"
    /\ IF \E i \in 1..Len(op[t].items) : op[t].items[i].key \notin DOMAIN props
       THEN Jump(t, "raised")
       ELSE Jump(t, "u_apply")
    /\ UNCHANGED <<props, status, orca_state, lock, procs, tpc, loc>>
    /\ UNCHANGED files

\* config.update(d), the loop `for k, v in updates.items(): setattr(self, k,
\* v)`: the setter of the next item, in the order of the dict, stores the
\* value or raises; the items before it stay assigned.
UpdateApply(t) ==
    /\ pc[t] = "u_apply"
    /\ IF op[t].items = <<>>
       THEN /\ Jump(t, "returned")
            /\ UNCHANGED props
       ELSE LET k == Head(op[t].items).key
                v == Head(op[t].items).val
            IN  IF Accepts(k, v)
                THEN /\ props' = [j \in DOMAIN props \cup {k} |->
                                    IF j = k THEN Coerced(k, v) ELSE props[j]]
                     /\ op' = [op EXCEPT ![t].items = Tail(@)]
                     /\ pc' = [pc EXCEPT ![t] =
                                 IF k \in RestartProps THEN "s_check"
                                 ELSE "u_apply"]
                ELSE /\ Jump(t, "raised")
                     /\ UNCHANGED props
    /\ UNCHANGED <<status, orca_state, lock, procs, tpc, loc>>
    /\ UNCHANGED files

\* config.restore_defaults(): _props = {}, then reset_orca_status().
RestoreDefaults(t) ==
    /\ pc[t] = "rd_clear"
    /\ props' = << >>
    /\ Jump(t, "s_check")
    /\ UNCHANGED <<status, orca_state, lock, procs, tpc, loc>>
    /\ UNCHANGED files

\* config.config_file
config_file == <<"~/.plotly/.orca">>

\* The properties whose values are numbers; the values of the others are
\* strings.
NumberProps ==
    {"port", "timeout", "default_width", "default_height", "default_scale"}

\* json.dump of _props: None is written as null, a number as a number and a
\* string as a string.
JsonDump(d) ==
    [k \in DOMAIN d |->
       IF d[k] = None THEN <<"null">>
       ELSE IF k \in NumberProps THEN <<"number", Val(d[k])>>
       ELSE <<"string", Val(d[k])>>]

\* json.loads of such a text.
JsonLoads(j) ==
    [k \in DOMAIN j |-> IF j[k][1] = "null" THEN None ELSE Some(j[k][2])]

\* A file that holds JSON, and one that holds something else.
JsonFile(j) == Some(<<"json", j>>)
Garbage == Some(<<"garbage">>)
JsonArray == Some(<<"json_array">>)

\* config.save(): open(config_file, 'w') raises when the file cannot be
\* written, else the file holds json.dump(_props).
Save(t) ==
    /\ pc[t] = "c_save"
    /\ \E open_ok \in BOOLEAN :
         IF open_ok
         THEN /\ files' = [path \in DOMAIN files \cup {config_file} |->
                             IF path = config_file
                             THEN JsonFile(JsonDump(props))
                             ELSE files[path]]
              /\ Jump(t, "returned")
         ELSE /\ Jump(t, "raised")
              /\ UNCHANGED files
    /\ UNCHANGED <<props, status, orca_state, lock, procs, tpc, loc>>

\* What reload does with the text it has read: a JSON object is a dict,
\* any other JSON value has no items(), and the rest is not JSON.
Parsed(content) ==
    IF Val(content)[1] = "json" THEN "dict"
    ELSE IF Val(content)[1] = "json_array" THEN "no_items"
    ELSE "invalid"

\* A reload that takes every property the file has.
Reload_TakesAll(t) ==
    /\ pc[t] = "c_reload"
    /\ \E read_ok \in BOOLEAN :
         LET read == config_file \in DOMAIN files /\ read_ok
             text == IF read THEN files[config_file] ELSE None
         IN  /\ loc' = [loc EXCEPT ![t].content = text]
             /\ IF read /\ Parsed(text) = "dict"
                THEN LET orca_props == JsonLoads(Val(text)[2])
                     IN  /\ props' = [k \in DOMAIN props \cup DOMAIN orca_props |->
                                        IF k \in DOMAIN orca_props
                                        THEN orca_props[k] ELSE props[k]]
                         /\ Jump(t, "returned")
                ELSE /\ UNCHANGED props
                     /\ Jump(t, IF read /\ Parsed(text) = "no_items"
                                THEN "raised" ELSE "returned")
    /\ UNCHANGED <<status, orca_state, lock, procs, tpc>>
    /\ UNCHANGED files

\* config.reload(): when the file exists, can be read and holds a JSON
\* object, the values of the keys that are in _props already are replaced by
\* those of the file.  When the file does not exist, cannot be read or is not
\* JSON, a warning is given and nothing changes.  When it holds a JSON value
\* that is no object, orca_props.items() raises AttributeError.
Reload(t) ==
    /\ pc[t] = "c_reload"
    /\ \E read_ok \in BOOLEAN :
         LET read == config_file \in DOMAIN files /\ read_ok
             text == IF read THEN files[config_file] ELSE None
         IN  /\ loc' = [loc EXCEPT ![t].content = text]
             /\ IF read /\ Parsed(text) = "dict"
                THEN LET orca_props == JsonLoads(Val(text)[2])
                     IN  /\ props' = [k \in DOMAIN props |->
                                        IF k \in DOMAIN orca_props
                                        THEN orca_props[k] ELSE props[k]]
                         /\ Jump(t, "returned")
                ELSE /\ UNCHANGED props
                     /\ Jump(t, IF read /\ Parsed(text) = "no_items"
                                THEN "raised" ELSE "returned")
    /\ UNCHANGED <<status, orca_state, lock, procs, tpc>>
    /\ UNCHANGED files

\* ----------------------------------------------------------------- to_image
\* What the server can answer to a post: the image, a response whose status
\* is not 2xx (its body describes the error), or a body that is no image.
ResponseKinds == {"image", "error_status", "malformed"}

\* Lines 1120-1123: the format argument or config.default_format, coerced.
ImageFormat(t) ==
    /\ pc[t] = "i_format"
    /\ LET r == _validate_coerce_format(IF op[t].val = None
                                        THEN Get("default_format")
                                        ELSE op[t].val)
       IN  IF r.ok
           THEN /\ loc' = [loc EXCEPT ![t].format = r.val, ![t].elapsed = 0]
                /\ Jump(t, "i_request")
           ELSE /\ Jump(t, "raised")
                /\ UNCHANGED loc
    /\ UNCHANGED <<props, status, orca_state, lock, procs, tpc>>
    /\ UNCHANGED files

\* A retry policy without stop_max_delay: a refused post is always tried
\* again.
ImageRequest_NoBudget(t) ==
    /\ pc[t] = "i_request"
    /\ \E answer \in ResponseKinds \cup {"refused"} :
         IF answer # "refused"
         THEN /\ loc' = [loc EXCEPT ![t].content = Some(answer),
                                    ![t].format = None, ![t].elapsed = 0]
              /\ Jump(t, AfterImage(op[t]))
         ELSE \E wait \in wait_random_min..wait_random_max :
                /\ loc' = [loc EXCEPT ![t].elapsed = @ + wait]
                /\ UNCHANGED <<pc, op>>
    /\ UNCHANGED <<props, status, orca_state, lock, procs, tpc>>
    /\ UNCHANGED files

\* Lines 1051-1063, one attempt of _request_image_with_retrying.  The post
\* either gets a response, whose content is returned whatever its status, or
\* raises (the connection is refused).  After an exception the retry
\* decorator raises once stop_max_delay milliseconds have passed since the
\* first attempt, and else sleeps wait_random_min..wait_random_max
\* milliseconds and calls again.
ImageRequest(t) ==
    /\ pc[t] = "i_request"
    /\ \E answer \in ResponseKinds \cup {"refused"} :
         IF answer # "refused"
         THEN /\ loc' = [loc EXCEPT ![t].content = Some(answer),
                                    ![t].format = None, ![t].elapsed = 0]
              /\ Jump(t, AfterImage(op[t]))
         ELSE IF loc[t].elapsed >= stop_max_delay
         THEN /\ loc' = [loc EXCEPT ![t].format = None, ![t].elapsed = 0]
              /\ Jump(t, "raised")
         ELSE \E wait \in wait_random_min..wait_random_max :
                /\ loc' = [loc EXCEPT ![t].elapsed = @ + wait]
                /\ UNCHANGED <<pc, op>>
    /\ UNCHANGED <<props, status, orca_state, lock, procs, tpc>>
    /\ UNCHANGED files

\* -------------------------------------------------------------- write_image
\* A destination that is no path but an object with a write method.
FileObjects == {Some(<<"<file>">>)}

\* The last index of character c in a path, 0 when it has none.
LastIndex(path, c) ==
    LET at == {i \in 1..Len(path) : path[i] = c}
    IN  IF at = {} THEN 0 ELSE CHOOSE i \in at : \A j \in at : j <= i

\* os.path.splitext(path)[1]: the path from its last dot on, when that dot
\* comes after the last separator and after a character that is no dot.
SplitExt(path) ==
    LET sep == LastIndex(path, "/")
        dot == LastIndex(path, ".")
    IN  IF dot > sep /\ \E i \in (sep + 1)..(dot - 1) : path[i] # "."
        THEN SubSeq(path, dot, Len(path))
        ELSE <<>>

\* An extension inference that passes a path without extension on to
\* to_image with no format.
WriteInfer_DefaultFormat(t) ==
    /\ pc[t] = "w_infer"
    /\ IF op[t].file \notin FileObjects /\ op[t].val = None
          /\ SplitExt(Val(op[t].file)) # <<>>
       THEN LET r == _validate_coerce_format(Some(SplitExt(Val(op[t].file))))
            IN  IF r.ok
                THEN /\ op' = [op EXCEPT ![t].val = r.val]
                     /\ pc' = [pc EXCEPT ![t] = "e_check"]
                ELSE Jump(t, "raised")
       ELSE Jump(t, "e_check")
    /\ UNCHANGED <<props, status, orca_state, lock, procs, tpc, loc, files>>

\* Lines 1201-1216: for a path and no format, the format is the coerced
\* extension of the path; a path without extension raises ValueError.
WriteInfer(t) ==
    /\ pc[t] = "w_infer"
    /\ IF op[t].file \notin FileObjects /\ op[t].val = None
       THEN IF SplitExt(Val(op[t].file)) # <<>>
            THEN LET r == _validate_coerce_format(
                            Some(SplitExt(Val(op[t].file))))
                 IN  IF r.ok
                     THEN /\ op' = [op EXCEPT ![t].val = r.val]
                          /\ pc' = [pc EXCEPT ![t] = "e_check"]
                     ELSE Jump(t, "raised")
            ELSE Jump(t, "raised")
       ELSE Jump(t, "e_check")
    /\ UNCHANGED <<props, status, orca_state, lock, procs, tpc, loc, files>>

\* Lines 1224-1228: open the path for writing and write the image, or write
\* it to the file object.  open raises when the path cannot be created.
WriteFile(t) ==
    /\ pc[t] = "w_write"
    /\ \E open_ok \in (IF op[t].file \in FileObjects
                        THEN {TRUE} ELSE BOOLEAN) :
         IF open_ok
         THEN /\ files' = [path \in DOMAIN files \cup {Val(op[t].file)} |->
                             IF path = Val(op[t].file) THEN loc[t].content
                             ELSE files[path]]
              /\ Jump(t, "returned")
         ELSE /\ Jump(t, "raised")
              /\ UNCHANGED files
    /\ loc' = [loc EXCEPT ![t].content = None]
    /\ UNCHANGED <<props, status, orca_state, lock, procs, tpc>>

\* -------------------------------------------------- _validate_coerce_format
\* Lines 43-81, called on its own: the result, or the ValueError.
CoerceFormat(t) ==
    /\ pc[t] = "f_call"
    /\ LET r == _validate_coerce_format(op[t].val)
       IN  IF r.ok
           THEN /\ loc' = [loc EXCEPT ![t].format = r.val]
                /\ Jump(t, "returned")
           ELSE /\ Jump(t, "raised")
                /\ UNCHANGED loc
    /\ UNCHANGED <<props, status, orca_state, lock, procs, tpc>>
    /\ UNCHANGED files

\* ------------------------------------------------------------------- calls
Entry(name) ==
    CASE name \in {"ensure", "to_image"} -> "e_check"
      [] name \in {"shutdown", "reset", "cleanup"} -> "s_check"
      [] name = "validate" -> "v_check"
      [] name = "set" -> "set_write"
      [] name = "coerce" -> "f_call"
      [] name = "write_image" -> "w_infer"
      [] name = "update" -> "u_keys"
      [] name = "save" -> "c_save"
      [] name = "reload" -> "c_reload"
      [] name = "restore_defaults" -> "rd_clear"

\* Calls of ensure_orca_server that have not returned.
InEnsure == Cardinality({t \in Callers : op[t].name \in {"ensure", "to_image"}})

LiveTimers == {k \in 1..MaxTimers : tpc[k] # "none"}

\* A thread at rest calls `name` (for a setter: config.<key> = val).  A call
\* of ensure_orca_server is made only when a timer thread can still be
\* started for it.
Call(t, name, key, val) ==
    /\ pc[t] \in Rest
    /\ name \in {"ensure", "to_image"} =>
         Cardinality(LiveTimers) + InEnsure < MaxTimers
    /\ op' = [op EXCEPT ![t] = [name |-> name, key |-> key, val |-> val,
                                file |-> None, items |-> <<>>]]
    /\ pc' = [pc EXCEPT ![t] = Entry(name)]
    /\ loc' = [loc EXCEPT ![t] = NoLocals]
    /\ UNCHANGED <<props, status, orca_state, lock, procs, tpc>>
    /\ UNCHANGED files

\* The values the callers assign to each property.
SetterValues(k) ==
    CASE k = "port" -> {None, Some(8080)}
      [] k = "timeout" -> {None, Some(30)}
      [] k = "executable" -> {None, Some("/opt/orca")}
      [] k = "topojson" -> {None, Some("/data/topojson")}
      [] k = "mathjax" -> {None, Some("/data/MathJax.js")}
      [] k = "mapbox_access_token" -> {None, Some("pk.token")}
      [] OTHER -> {None}

\* ------------------------------------------------------------- LaunchSpec
\* The threads call ensure_orca_server and shutdown_orca_server and set a
\* timeout concurrently, against the timer threads.
LaunchCalls == {"ensure", "shutdown"}

\* The timers that ensure_orca_server has cancelled after their callback had
\* started, while the server they were started for is still the one running.
StaleAfter ==
    IF orca_state.proc # orca_state'.proc
    THEN {}
    ELSE {k \in hist.stale : tpc'[k] # "none"}
           \cup {k \in 1..MaxTimers :
                   /\ \E t \in Callers : pc[t] = "e_lock" /\ pc'[t] # "e_lock"
                   /\ orca_state.shutdown_timer = Some(k)
                   /\ InCallback(k)}

TrackStale == hist' = [hist EXCEPT !.stale = StaleAfter]

NextLaunch ==
    \/ \E t \in Callers : \E n \in LaunchCalls :
         Call(t, n, "", None) /\ TrackStale
    \/ \E t \in Callers : \E v \in SetterValues("timeout") \ {None} :
         Call(t, "set", "timeout", v) /\ TrackStale
    \/ \E t \in Callers : SetProperty(t) /\ TrackStale
    \/ \E t \in Callers : ShutdownCheck(t) /\ TrackStale
    \/ \E t \in Callers : ShutdownKill(t) /\ TrackStale
    \/ \E t \in Callers : ShutdownStatus(t) /\ TrackStale
    \/ \E t \in Callers : ValidateCheck(t) /\ TrackStale
    \/ \E t \in Callers : ValidateProbe(t) /\ TrackStale
    \/ \E t \in Callers : ValidateSetExecutable(t) /\ TrackStale
    \/ \E t \in Callers : ValidateSetVersion(t) /\ TrackStale
    \/ \E t \in Callers : ValidateSetState(t) /\ TrackStale
    \/ \E t \in Callers : EnsureCheck(t) /\ TrackStale
    \/ \E t \in Callers : EnsureCommand(t) /\ TrackStale
    \/ \E t \in Callers : EnsureSpawn(t) /\ TrackStale
    \/ \E t \in Callers : EnsureTimer(t) /\ TrackStale
    \/ \E k \in 1..MaxTimers : TimerFire(k) /\ TrackStale
    \/ \E k \in 1..MaxTimers : ShutdownKill(-k) /\ TrackStale
    \/ \E k \in 1..MaxTimers : ShutdownStatus(-k) /\ TrackStale

LaunchSpec == Init /\ [][NextLaunch]_vars

\* ------------------------------------------------------------------- Spec
\* As LaunchSpec, and the threads also call reset_orca_status and
\* validate_orca_executable.
SpecCalls == {"ensure", "shutdown", "reset", "validate"}

Next ==
    \/ \E t \in Callers : \E n \in SpecCalls :
         Call(t, n, "", None) /\ TrackStale
    \/ \E t \in Callers : \E v \in SetterValues("timeout") :
         Call(t, "set", "timeout", v) /\ TrackStale
    \/ \E t \in Callers : SetProperty(t) /\ TrackStale
    \/ \E t \in Callers : ShutdownCheck(t) /\ TrackStale
    \/ \E t \in Callers : ShutdownKill(t) /\ TrackStale
    \/ \E t \in Callers : ShutdownStatus(t) /\ TrackStale
    \/ \E t \in Callers : ValidateCheck(t) /\ TrackStale
    \/ \E t \in Callers : ValidateProbe(t) /\ TrackStale
    \/ \E t \in Callers : ValidateSetExecutable(t) /\ TrackStale
    \/ \E t \in Callers : ValidateSetVersion(t) /\ TrackStale
    \/ \E t \in Callers : ValidateSetState(t) /\ TrackStale
    \/ \E t \in Callers : EnsureCheck(t) /\ TrackStale
    \/ \E t \in Callers : EnsureCommand(t) /\ TrackStale
    \/ \E t \in Callers : EnsureSpawn(t) /\ TrackStale
    \/ \E t \in Callers : EnsureTimer(t) /\ TrackStale
    \/ \E t \in Callers : ResetExecutable(t) /\ TrackStale
    \/ \E t \in Callers : ResetVersion(t) /\ TrackStale
    \/ \E t \in Callers : ResetState(t) /\ TrackStale
    \/ \E k \in 1..MaxTimers : TimerFire(k) /\ TrackStale
    \/ \E k \in 1..MaxTimers : ShutdownKill(-k) /\ TrackStale
    \/ \E k \in 1..MaxTimers : ShutdownStatus(-k) /\ TrackStale

Spec == Init /\ [][Next]_vars

\* ---------------------------------------------------------------- SeqSpec
\* One thread uses the module, one call at a time, and a timer callback runs
\* between two calls: the setting of the contracts of the single functions.
\* The history keeps the last call, and the status and the value of the
\* assigned property when it was made.
\* The first caller thread.
Main == CHOOSE t \in Callers : \A u \in Callers : t <= u

\* Thread self (a timer thread k is -k) is the only one inside a function.
Alone(self) ==
    /\ self < 0 => pc[Main] \in Rest
    /\ \A k \in 1..MaxTimers : k # -self => ~InCallback(k)

CallSnapshot ==
    IF pc[Main] \in Rest /\ pc'[Main] \notin Rest
    THEN [hist EXCEPT !.call = op'[Main], !.status = status,
                      !.old = IF op'[Main].name = "set"
                              THEN Get(op'[Main].key) ELSE None]
    ELSE hist

TrackCall(self) == Alone(self) /\ hist' = CallSnapshot

SeqCalls == {"ensure", "shutdown", "reset", "validate"}

SeqProps ==
    {"port", "timeout", "executable", "topojson", "mathjax",
     "mapbox_access_token"}

\* The values the thread assigns: a port, a timeout, another executable and
\* back to the default one, and a value for each of the three assets.
SeqValues(k) ==
    IF k = "executable" THEN SetterValues(k) ELSE SetterValues(k) \ {None}

NextSeq ==
    \/ \E n \in SeqCalls : Call(Main, n, "", None) /\ TrackCall(Main)
    \/ \E k \in SeqProps : \E v \in SeqValues(k) :
         Call(Main, "set", k, v) /\ TrackCall(Main)
    \/ SetProperty(Main) /\ TrackCall(Main)
    \/ ShutdownCheck(Main) /\ TrackCall(Main)
    \/ ShutdownKill(Main) /\ TrackCall(Main)
    \/ ShutdownStatus(Main) /\ TrackCall(Main)
    \/ ValidateCheck(Main) /\ TrackCall(Main)
    \/ ValidateProbe(Main) /\ TrackCall(Main)
    \/ ValidateSetExecutable(Main) /\ TrackCall(Main)
    \/ ValidateSetVersion(Main) /\ TrackCall(Main)
    \/ ValidateSetState(Main) /\ TrackCall(Main)
    \/ EnsureCheck(Main) /\ TrackCall(Main)
    \/ EnsureCommand(Main) /\ TrackCall(Main)
    \/ EnsureSpawn(Main) /\ TrackCall(Main)
    \/ EnsureTimer(Main) /\ TrackCall(Main)
    \/ ResetExecutable(Main) /\ TrackCall(Main)
    \/ ResetVersion(Main) /\ TrackCall(Main)
    \/ ResetState(Main) /\ TrackCall(Main)
    \/ \E k \in 1..MaxTimers : TimerFire(k) /\ TrackCall(-k)
    \/ \E k \in 1..MaxTimers : ShutdownKill(-k) /\ TrackCall(-k)
    \/ \E k \in 1..MaxTimers : ShutdownStatus(-k) /\ TrackCall(-k)

SeqSpec == Init /\ [][NextSeq]_vars

\* ------------------------------------------------------------- RenderSpec
\* One thread converts figures: to_image with an explicit or a default
\* format, and shutdown_orca_server between conversions.  No timeout is
\* configured.
ImageFormats ==
    {None, Some(<<"p","n","g">>), Some(<<"J","P","G">>), Some(<<"b","m","p">>)}

TrackImage == hist' = CallSnapshot

NextRender ==
    \/ \E f \in ImageFormats : Call(Main, "to_image", "", f) /\ TrackImage
    \/ Call(Main, "shutdown", "", None) /\ TrackImage
    \/ ShutdownCheck(Main) /\ TrackImage
    \/ ShutdownKill(Main) /\ TrackImage
    \/ ShutdownStatus(Main) /\ TrackImage
    \/ ValidateCheck(Main) /\ TrackImage
    \/ ValidateProbe(Main) /\ TrackImage
    \/ ValidateSetExecutable(Main) /\ TrackImage
    \/ ValidateSetVersion(Main) /\ TrackImage
    \/ ValidateSetState(Main) /\ TrackImage
    \/ EnsureCheck(Main) /\ TrackImage
    \/ EnsureCommand(Main) /\ TrackImage
    \/ EnsureSpawn(Main) /\ TrackImage
    \/ EnsureTimer(Main) /\ TrackImage
    \/ ImageFormat(Main) /\ TrackImage
    \/ ImageRequest(Main) /\ TrackImage

RenderSpec == Init /\ [][NextRender]_vars

\* ------------------------------------------------------------- FormatSpec
\* _validate_coerce_format applied to None, to values that are no strings,
\* to every string of at most MaxFormatLen characters of FormatAlphabet, to
\* every known name, and 'bmp', in lower and upper case and with dots
\* around it, and to its own results.
FormatAlphabet == {".", "j", "J", "p", "g", "e"}

\* str.upper() on a string of lower-case letters.
Upper(str) ==
    [i \in 1..Len(str) |-> CHOOSE u \in UpperCase : LowerChar(u) = str[i]]

\* The strings over FormatAlphabet of length n.
Strings(n) == [1..n -> FormatAlphabet]

FormatNames ==
    UNION {{f, Upper(f), <<".">> \o f, <<".">> \o Upper(f),
            <<".", ".">> \o f, f \o <<".">>} :
           f \in DOMAIN _format_conversions \cup {<<"b","m","p">>}}

FormatInputs ==
    {None} \cup NonStrings
      \cup {Some(str) : str \in FormatNames}
      \cup {Some(str) : str \in UNION {Strings(n) : n \in 0..MaxFormatLen}}

NextFormat ==
    \/ \E f \in FormatInputs : Call(Main, "coerce", "", f) /\ TrackImage
    \/ /\ pc[Main] = "returned"
       /\ Call(Main, "coerce", "", loc[Main].format) /\ TrackImage
    \/ CoerceFormat(Main) /\ TrackImage

FormatSpec == Init /\ [][NextFormat]_vars

\* -------------------------------------------------------------- WriteSpec
\* One thread calls write_image, with a path and no format or with a path
\* or a file object and a format, until a call returns.  A file may exist
\* already.
WritePaths ==
    { <<"o",".","p","n","g">>, <<"o",".","J","P","G">>, <<"o">>,
      <<".","p","n","g">>, <<"o",".">>, <<"o",".","b","m","p">>,
      <<"d",".","x","/","o">> }

\* The destinations given together with a format.
WriteTargets == {Some(<<"o">>), Some(<<"o",".","J","P","G">>)} \cup FileObjects

WriteFormats == {Some(<<"p","n","g">>), Some(<<"b","m","p">>)}

\* The files that may exist before the first call.
OldFiles == {NoFiles, [path \in {<<"o",".","p","n","g">>} |-> Some("old")]}

WriteInit ==
    /\ Boot
    /\ files \in OldFiles

\* Thread t calls write_image(fig, file, format).
CallWrite(t, file, format) ==
    /\ pc[t] \in {"idle", "raised"}
    /\ op' = [op EXCEPT ![t] = [name |-> "write_image", key |-> "",
                                val |-> format, file |-> file,
                                items |-> <<>>]]
    /\ pc' = [pc EXCEPT ![t] = Entry("write_image")]
    /\ loc' = [loc EXCEPT ![t] = NoLocals]
    /\ UNCHANGED <<props, status, orca_state, lock, procs, tpc, files>>

NextWrite ==
    \/ \E path \in WritePaths : CallWrite(Main, Some(path), None) /\ TrackImage
    \/ \E file \in WriteTargets : \E f \in WriteFormats :
         CallWrite(Main, file, f) /\ TrackImage
    \/ WriteInfer(Main) /\ TrackImage
    \/ ValidateCheck(Main) /\ TrackImage
    \/ ValidateProbe(Main) /\ TrackImage
    \/ ValidateSetExecutable(Main) /\ TrackImage
    \/ ValidateSetVersion(Main) /\ TrackImage
    \/ ValidateSetState(Main) /\ TrackImage
    \/ EnsureCheck(Main) /\ TrackImage
    \/ EnsureCommand(Main) /\ TrackImage
    \/ EnsureSpawn(Main) /\ TrackImage
    \/ EnsureTimer(Main) /\ TrackImage
    \/ ImageFormat(Main) /\ TrackImage
    \/ ImageRequest(Main) /\ TrackImage
    \/ WriteFile(Main) /\ TrackImage

WriteSpec == WriteInit /\ [][NextWrite]_vars

\* ------------------------------------------------------------- ConfigSpec
\* One thread works on the configuration, with no server launched: it
\* assigns the six scalar properties, with values their setters accept and
\* values they reject, calls update with one or two items, and saves,
\* reloads and restores the defaults.  The configuration file does not exist
\* at first, or holds something that is not JSON, a JSON array, or a JSON
\* object written with an editor.
ScalarProps ==
    {"port", "timeout", "default_format", "default_width", "default_height",
     "default_scale"}

ConfigValues(k) ==
    CASE k = "port" -> {Some(8080), WrongType}
      [] k = "timeout" -> {Some(30), WrongType}
      [] k = "default_format" -> {Some(<<"S","V","G">>), Some(<<"b","m","p">>)}
      [] k = "default_width" -> {Some(700), WrongType}
      [] k = "default_height" -> {Some(500), WrongType}
      [] k = "default_scale" -> {Some(2), WrongType}

\* The arguments of update, as the items of the dict in its order.
Item(k, v) == [key |-> k, val |-> v]
Updates ==
    { <<Item("timeout", Some(30)), Item("default_format", Some(<<"s","v","g">>))>>,
      <<Item("port", Some(9000)), Item("timeout", WrongType)>>,
      <<Item("port", Some(9000))>>,
      <<Item("colour", None)>> }

ConfigCalls == {"save", "reload", "restore_defaults"}

\* A configuration file written with an editor: a port, and a key that is
\* no property.
Edited ==
    JsonFile([k \in {"port", "colour"} |->
                IF k = "port" THEN <<"number", 9000>> ELSE <<"string", "red">>])

ConfigInit ==
    /\ Boot
    /\ files \in {NoFiles} \cup {[path \in {config_file} |-> text] :
                               text \in {Garbage, JsonArray, Edited}}

CallUpdate(t, items) ==
    /\ pc[t] \in Rest
    /\ op' = [op EXCEPT ![t] = [name |-> "update", key |-> "", val |-> None,
                                file |-> None, items |-> items]]
    /\ pc' = [pc EXCEPT ![t] = Entry("update")]
    /\ loc' = [loc EXCEPT ![t] = NoLocals]
    /\ UNCHANGED <<props, status, orca_state, lock, procs, tpc, files>>

\* The history keeps the last call, and the status and the properties when
\* it was made.
TrackConfig ==
    hist' = IF pc[Main] \in Rest /\ pc'[Main] \notin Rest
            THEN [hist EXCEPT !.call = op'[Main], !.status = status,
                              !.props = props]
            ELSE hist

NextConfig ==
    \/ \E k \in ScalarProps : \E v \in ConfigValues(k) :
         Call(Main, "set", k, v) /\ TrackConfig
    \/ \E items \in Updates : CallUpdate(Main, items) /\ TrackConfig
    \/ \E n \in ConfigCalls : Call(Main, n, "", None) /\ TrackConfig
    \/ SetProperty(Main) /\ TrackConfig
    \/ UpdateKeys(Main) /\ TrackConfig
    \/ UpdateApply(Main) /\ TrackConfig
    \/ Save(Main) /\ TrackConfig
    \/ Reload(Main) /\ TrackConfig
    \/ RestoreDefaults(Main) /\ TrackConfig
    \/ ShutdownCheck(Main) /\ TrackConfig
    \/ ResetExecutable(Main) /\ TrackConfig
    \/ ResetVersion(Main) /\ TrackConfig
    \/ ResetState(Main) /\ TrackConfig

ConfigSpec == ConfigInit /\ [][NextConfig]_vars

\* ------------------------------------------------------------ CommandSpec
\* One thread launches and stops the server between assignments of the
\* properties that go into the launch command: each is assigned a value,
\* None, and for the access token the empty string.  No timeout is
\* configured and no history is kept.
CommandProps ==
    {"port", "executable", "topojson", "mathjax", "mapbox_access_token"}

CommandValues(k) ==
    IF k = "mapbox_access_token" THEN SetterValues(k) \cup {Some("")}
    ELSE SetterValues(k)

NextCommand ==
    \/ \E n \in LaunchCalls : Call(Main, n, "", None) /\ UNCHANGED hist
    \/ \E k \in CommandProps : \E v \in CommandValues(k) :
         Call(Main, "set", k, v) /\ UNCHANGED hist
    \/ SetProperty(Main) /\ UNCHANGED hist
    \/ ShutdownCheck(Main) /\ UNCHANGED hist
    \/ ShutdownKill(Main) /\ UNCHANGED hist
    \/ ShutdownStatus(Main) /\ UNCHANGED hist
    \/ ValidateCheck(Main) /\ UNCHANGED hist
    \/ ValidateProbe(Main) /\ UNCHANGED hist
    \/ ValidateSetExecutable(Main) /\ UNCHANGED hist
    \/ ValidateSetVersion(Main) /\ UNCHANGED hist
    \/ ValidateSetState(Main) /\ UNCHANGED hist
    \/ EnsureCheck(Main) /\ UNCHANGED hist
    \/ EnsureCommand(Main) /\ UNCHANGED hist
    \/ EnsureSpawn(Main) /\ UNCHANGED hist
    \/ EnsureTimer(Main) /\ UNCHANGED hist

CommandSpec == Init /\ [][NextCommand]_vars

\* --------------------------------------------------------------- ReapSpec
\* One thread launches and stops the server, with a timeout or without, and
\* the descendants of the server take their time to exit after terminate().
ReapCalls == {"ensure", "shutdown"}
Leftovers == {"none", "orphans"}

NextReap ==
    \/ \E n \in ReapCalls : Call(Main, n, "", None) /\ TrackCall(Main)
    \/ \E v \in SetterValues("timeout") :
         Call(Main, "set", "timeout", v) /\ TrackCall(Main)
    \/ SetProperty(Main) /\ TrackCall(Main)
    \/ ShutdownCheck(Main) /\ TrackCall(Main)
    \/ \E left \in Leftovers : ShutdownKillWith(Main, left) /\ TrackCall(Main)
    \/ ShutdownStatus(Main) /\ TrackCall(Main)
    \/ ValidateCheck(Main) /\ TrackCall(Main)
    \/ ValidateProbe(Main) /\ TrackCall(Main)
    \/ ValidateSetExecutable(Main) /\ TrackCall(Main)
    \/ ValidateSetVersion(Main) /\ TrackCall(Main)
    \/ ValidateSetState(Main) /\ TrackCall(Main)
    \/ EnsureCheck(Main) /\ TrackCall(Main)
    \/ EnsureCommand(Main) /\ TrackCall(Main)
    \/ EnsureSpawn(Main) /\ TrackCall(Main)
    \/ EnsureTimer(Main) /\ TrackCall(Main)
    \/ \E k \in 1..MaxTimers : TimerFire(k) /\ TrackCall(-k)
    \/ \E k \in 1..MaxTimers : \E left \in Leftovers :
         ShutdownKillWith(-k, left) /\ TrackCall(-k)
    \/ \E k \in 1..MaxTimers : ShutdownStatus(-k) /\ TrackCall(-k)
    \/ \E p \in 1..MaxProcs : OrphanExit(p) /\ UNCHANGED hist

ReapSpec == Init /\ [][NextReap]_vars

\* --------------------------------------------------------------- ExitSpec
\* One thread launches and stops the server and assigns a timeout, a port
\* and an executable, until the program ends: the exit hook cleanup() runs
\* and no call is made after it.  The timer threads are daemon threads: none
\* fires once the program has ended.
ExitCalls == {"ensure", "shutdown", "reset"}
ExitProps == {"timeout", "port", "executable"}

\* The exit hook has been called.
Exiting == hist.call.name = "cleanup"

NextExit ==
    \/ \E n \in ExitCalls :
         ~Exiting /\ Call(Main, n, "", None) /\ TrackCall(Main)
    \/ \E k \in ExitProps : \E v \in SeqValues(k) :
         ~Exiting /\ Call(Main, "set", k, v) /\ TrackCall(Main)
    \/ ~Exiting /\ Call(Main, "cleanup", "", None) /\ TrackCall(Main)
    \/ SetProperty(Main) /\ TrackCall(Main)
    \/ ShutdownCheck(Main) /\ TrackCall(Main)
    \/ ShutdownKill(Main) /\ TrackCall(Main)
    \/ ShutdownStatus(Main) /\ TrackCall(Main)
    \/ ValidateCheck(Main) /\ TrackCall(Main)
    \/ ValidateProbe(Main) /\ TrackCall(Main)
    \/ ValidateSetExecutable(Main) /\ TrackCall(Main)
    \/ ValidateSetVersion(Main) /\ TrackCall(Main)
    \/ ValidateSetState(Main) /\ TrackCall(Main)
    \/ EnsureCheck(Main) /\ TrackCall(Main)
    \/ EnsureCommand(Main) /\ TrackCall(Main)
    \/ EnsureSpawn(Main) /\ TrackCall(Main)
    \/ EnsureTimer(Main) /\ TrackCall(Main)
    \/ ResetExecutable(Main) /\ TrackCall(Main)
    \/ ResetVersion(Main) /\ TrackCall(Main)
    \/ ResetState(Main) /\ TrackCall(Main)
    \/ \E k \in 1..MaxTimers : ~Exiting /\ TimerFire(k) /\ TrackCall(-k)
    \/ \E k \in 1..MaxTimers : ShutdownKill(-k) /\ TrackCall(-k)
    \/ \E k \in 1..MaxTimers : ShutdownStatus(-k) /\ TrackCall(-k)

ExitSpec == Init /\ [][NextExit]_vars

\* --------------------------------------------------------------- FairSpec
\* One thread calls ensure_orca_server, shutdown_orca_server and the timeout
\* setter against the timer threads.  A call that has started runs to its
\* end, a started timer fires when its interval has passed, and its
\* callback runs to its end (it gets the lock if the lock is free again and
\* again); nothing obliges the thread to make a call.
FairCalls == {"ensure", "shutdown"}

\* A shutdown_orca_server raises in this step: psutil could not terminate
\* the server.
KillFails ==
    \/ pc[Main] = "s_lock" /\ pc'[Main] = "raised"
    \/ \E k \in 1..MaxTimers :
         /\ tpc[k] = "s_lock" /\ tpc'[k] = "none"
         /\ orca_state.proc # None

\* The history keeps whether a termination has failed.
TrackFailure == hist' = [hist EXCEPT !.failed = @ \/ KillFails]

NextFair ==
    \/ \E n \in FairCalls : Call(Main, n, "", None) /\ TrackFailure
    \/ \E v \in SetterValues("timeout") :
         Call(Main, "set", "timeout", v) /\ TrackFailure
    \/ SetProperty(Main) /\ TrackFailure
    \/ ShutdownCheck(Main) /\ TrackFailure
    \/ ShutdownKill(Main) /\ TrackFailure
    \/ ShutdownStatus(Main) /\ TrackFailure
    \/ ValidateCheck(Main) /\ TrackFailure
    \/ ValidateProbe(Main) /\ TrackFailure
    \/ ValidateSetExecutable(Main) /\ TrackFailure
    \/ ValidateSetVersion(Main) /\ TrackFailure
    \/ ValidateSetState(Main) /\ TrackFailure
    \/ EnsureCheck(Main) /\ TrackFailure
    \/ EnsureCommand(Main) /\ TrackFailure
    \/ EnsureSpawn(Main) /\ TrackFailure
    \/ EnsureTimer(Main) /\ TrackFailure
    \/ \E k \in 1..MaxTimers : TimerFire(k) /\ TrackFailure
    \/ \E k \in 1..MaxTimers : ShutdownKill(-k) /\ TrackFailure
    \/ \E k \in 1..MaxTimers : ShutdownStatus(-k) /\ TrackFailure

\* A step of the thread inside a function it has called.
MainProgress ==
    /\ NextFair
    /\ pc[Main] \notin Rest
    /\ pc'[Main] # pc[Main]

\* A step of timer thread k: it fires, or goes on in its callback.
TimerProgress(k) ==
    /\ NextFair
    /\ tpc[k] # "none"
    /\ tpc'[k] # tpc[k]

FairSpec ==
    /\ Init
    /\ [][NextFair]_vars
    /\ WF_vars(MainProgress)
    /\ \A k \in 1..MaxTimers : SF_vars(TimerProgress(k))

\* ================================================================ claims
\* The server processes that are alive.
Alive == {p \in 1..MaxProcs : procs[p] = "alive"}

\* A timer thread's shutdown terminates the server in this step.
TimerKills(k) == tpc[k] = "s_lock" /\ tpc'[k] = "s_status"

\* C1 (LaunchSpec): however the threads' calls of ensure_orca_server
\* interleave, at most one server process is alive, and every caller about
\* to return from ensure_orca_server finds that one process in
\* __orca_state['proc'] and its pid in status.pid.
C1_OneServer ==
    /\ Cardinality(Alive) <= 1
    /\ \A t \in Callers :
         pc[t] = "e_timer" =>
           /\ orca_state.proc # None
           /\ Alive = {Val(orca_state.proc)}
           /\ status.pid = orca_state.proc

\* Two threads are inside ensure_orca_server at once; one has launched the
\* server and holds the lock, the other waits for it.
C1_Witness ==
    /\ op[1].name = "ensure" /\ pc[1] = "e_timer"
    /\ op[2].name = "ensure" /\ pc[2] = "e_lock"
    /\ Alive # {}

\* C2 (LaunchSpec): a timer that ensure_orca_server cancelled on a running
\* server never terminates that server, even when its callback had already
\* started and was waiting for the lock.
C2_CancelledTimerNeverShutsDown ==
    [][\A k \in 1..MaxTimers : TimerKills(k) => k \notin hist.stale]_vars

\* C3 (FairSpec): when a timeout is configured and the server is running,
\* then, unless ensure_orca_server is called again, the timeout is taken
\* back or a termination fails, the server is eventually shut down: the
\* state is 'validated' and the pid is None.
C3_IdleServerShutsDown ==
    (Get("timeout") # None /\ status.state = "running")
        ~> \/ status.state = "validated" /\ status.pid = None
           \/ op[Main].name = "ensure"
           \/ Get("timeout") = None
           \/ hist.failed

\* C4 (Spec): no timer thread terminates the server while config.timeout is
\* None.
C4_NoTimerShutdownWithoutTimeout ==
    [][\A k \in 1..MaxTimers : TimerKills(k) => Get("timeout") # None]_vars

\* C5 (SeqSpec): shutdown_orca_server called when no process is active
\* returns and leaves the status, the process handle, the timer, the port
\* and the processes as they are; and after a shutdown_orca_server that has
\* returned no process is active, so that a second call is such a call.
C5_ShutdownIdempotent ==
    /\ [][(/\ pc[Main] = "s_check"
           /\ op[Main].name = "shutdown"
           /\ orca_state.proc = None)
          => /\ pc'[Main] = "returned"
             /\ UNCHANGED <<status, orca_state, procs, tpc, lock, props>>]_vars
    /\ []((pc[Main] = "returned" /\ hist.call.name = "shutdown")
            => orca_state.proc = None /\ Alive = {})

\* shutdown_orca_server has returned from a call made in state 'validated'
\* with no server running, and the status is what it was.
C5_Witness ==
    /\ pc[Main] = "returned"
    /\ hist.call.name = "shutdown"
    /\ hist.status.state = "validated"
    /\ status = hist.status

\* C6 (SeqSpec): when the setter of topojson, mathjax or mapbox_access_token
\* returns from a call made in state 'running', no process is active, the
\* state is 'validated', pid, port and command are None, and executable and
\* version are what they were.
C6_AssetSetterStopsServer ==
    (/\ pc[Main] = "returned"
     /\ hist.call.name = "set"
     /\ hist.call.key \in {"topojson", "mathjax", "mapbox_access_token"}
     /\ hist.status.state = "running")
    => /\ orca_state.proc = None
       /\ Alive = {}
       /\ status = [hist.status EXCEPT !.state = "validated", !.pid = None,
                                       !.port = None, !.command = None]

\* The mathjax setter has returned from a call made while the server was
\* running.
C6_Witness ==
    /\ pc[Main] = "returned"
    /\ hist.call.name = "set"
    /\ hist.call.key = "mathjax"
    /\ hist.status.state = "running"
    /\ hist.status.port # None
    /\ status.state = "validated"

\* C7 (SeqSpec): when the executable setter returns from a call that
\* changed the value while the server was running, no process is active and
\* the state is 'unvalidated'.
C7_ExecutableSetterInvalidates ==
    (/\ pc[Main] = "returned"
     /\ hist.call.name = "set"
     /\ hist.call.key = "executable"
     /\ Coerced("executable", hist.call.val) # hist.old
     /\ hist.status.state = "running")
    => /\ orca_state.proc = None
       /\ status.state = "unvalidated"

\* C8 (SeqSpec): when the port setter returns from a call made while the
\* server was running, no process is active; and a running server listens
\* on config.port whenever config.port is not None.
C8_PortSetterStopsServer ==
    /\ (/\ pc[Main] = "returned"
        /\ hist.call.name = "set"
        /\ hist.call.key = "port"
        /\ hist.status.state = "running")
       => orca_state.proc = None
    /\ (status.state = "running" /\ Get("port") # None)
       => status.port = Get("port")

\* No thread is inside a function of the module.
Quiescent ==
    /\ \A t \in Callers : pc[t] \in Rest
    /\ \A k \in 1..MaxTimers : ~InCallback(k)

\* C9 (Spec): whenever no operation is in progress, pid, port and command
\* are None unless the state is 'running', and executable and version are
\* None in state 'unvalidated' and set in the other states.
C9_StatusConsistent ==
    Quiescent =>
      /\ status.state # "running" =>
           status.pid = None /\ status.port = None /\ status.command = None
      /\ status.state = "unvalidated" =>
           status.executable = None /\ status.version = None
      /\ status.state # "unvalidated" =>
           status.executable # None /\ status.version # None

\* C10 (RenderSpec): to_image returns only the image: a response with an
\* error status or a malformed body does not make it return.
C10_ErrorResponseNotReturned ==
    (pc[Main] = "returned" /\ hist.call.name = "to_image")
      => loc[Main].content = Some("image")

FormatOf(fmt) ==
    LET low == Lower(Val(fmt))
        bare == IF low # <<>> /\ Head(low) = "." THEN Tail(low) ELSE low
        name == IF bare = <<"j","p","g">> THEN <<"j","p","e","g">> ELSE bare
    IN  IF fmt \notin NonStrings /\ name \in valid_formats
        THEN Some(name) ELSE None

\* C12 (FormatSpec): _validate_coerce_format returns None for None, the
\* format a value stands for when it stands for one, and raises in every
\* other case; and applied to a result it returns that result.
C12_FormatCoercion ==
    hist.call.name = "coerce" =>
      /\ pc[Main] = "returned" =>
            /\ loc[Main].format =
                 (IF hist.call.val = None THEN None ELSE FormatOf(hist.call.val))
            /\ hist.call.val # None => loc[Main].format # None
            /\ _validate_coerce_format(loc[Main].format) =
                 [ok |-> TRUE, val |-> loc[Main].format]
      /\ pc[Main] = "raised" =>
            hist.call.val # None /\ FormatOf(hist.call.val) = None

\* '.JPG' has been coerced to 'jpeg'.
C12_Witness ==
    /\ pc[Main] = "returned"
    /\ hist.call.name = "coerce"
    /\ hist.call.val = Some(<<".","J","P","G">>)
    /\ loc[Main].format = Some(<<"j","p","e","g">>)

\* The last call is write_image with a path and no format.
PathOnly ==
    /\ hist.call.name = "write_image"
    /\ hist.call.val = None
    /\ hist.call.file \notin FileObjects

ReloadedSaved ==
    /\ pc[Main] = "returned"
    /\ hist.call.name = "reload"
    /\ hist.props = << >>
    /\ loc[Main].content # None
    /\ Val(loc[Main].content)[1] = "json"
    /\ DOMAIN Val(loc[Main].content)[2] = ScalarProps

\* C14 (ConfigSpec): reload on a configuration with no property assigned
\* restores the six scalar properties that save wrote.
C14_SaveReloadRoundTrip ==
    ReloadedSaved => props = JsonLoads(Val(loc[Main].content)[2])

\* The last call is update with names of properties and values that their
\* setters accept.
ValidUpdate ==
    /\ hist.call.name = "update"
    /\ \A i \in 1..Len(hist.call.items) :
         /\ hist.call.items[i].key \in PropNames
         /\ Accepts(hist.call.items[i].key, hist.call.items[i].val)

\* C15 (ConfigSpec): a setter or an update that raises has changed no
\* property and nothing of the status.
C15_NoPartialWrite ==
    (pc[Main] = "raised" /\ hist.call.name \in {"set", "update"})
      => props = hist.props /\ status = hist.status

\* C16 (ConfigSpec): update with names of properties and acceptable values
\* does not raise, whether the properties were assigned before or not.
C16_UpdateAcceptsEveryName ==
    ValidUpdate => pc[Main] # "raised"
\* The optional arguments of the launch command in their order, and the
\* configuration value each one passes.
OptionFlags == <<"--plotly", "--topojson", "--mathjax", "--mapbox-access-token">>
OptionValue(i) ==
    CASE i = 1 -> plotlyjs
      [] i = 2 -> Get("topojson")
      [] i = 3 -> Get("mathjax")
      [] i = 4 -> Get("mapbox_access_token")

\* The positions of command cmd that hold the flag of option i.
FlagAt(cmd, i) == {p \in 6..Len(cmd) : (p % 2 = 0) /\ cmd[p] = OptionFlags[i]}

\* cmd is the launch command of the present configuration for `port`.
LaunchCommand(cmd, port) ==
    /\ Len(cmd) = 5 + 2 * Cardinality({i \in 1..4 : Truthy(OptionValue(i))})
    /\ SubSeq(cmd, 1, 5) =
         <<Val(Get("executable")), "serve", "-p", ToString(Val(port)),
           "--graph-only">>
    /\ \A i \in 1..4 :
         /\ Truthy(OptionValue(i)) <=> FlagAt(cmd, i) # {}
         /\ \A p \in FlagAt(cmd, i) : cmd[p + 1] = Val(OptionValue(i))
         /\ \A j \in 1..4 : \A p \in FlagAt(cmd, i) : \A q \in FlagAt(cmd, j) :
              i < j => p < q

\* C17 (CommandSpec): the command that a launch records in status.command
\* is executable, 'serve', '-p', port, '--graph-only' and then the pairs of
\* plotly, topojson, mathjax and the access token in that order, each pair
\* there exactly when its configuration value is set and not empty; and
\* whenever a command is recorded its port is status.port.
C17_LaunchCommand ==
    /\ [][(status'.command # None /\ status'.command # status.command)
            => LaunchCommand(Val(status'.command), status'.port)]_vars
    /\ [](status.command # None =>
            /\ status.port # None
            /\ Val(status.command)[4] = ToString(Val(status.port)))

\* A server was launched on the configured port with no topojson and with
\* an access token.
C17_Witness ==
    /\ status.state = "running"
    /\ status.port = Some(8080)
    /\ Val(status.command) =
         <<"/opt/orca", "serve", "-p", "8080", "--graph-only",
           "--plotly", Val(plotlyjs), "--mathjax", "/data/MathJax.js",
           "--mapbox-access-token", "pk.token">>
\* Where a thread is inside validate_orca_executable().
InValidate == {"v_check", "v_probe", "v_executable", "v_version", "v_state"}

\* C18 (SeqSpec): validate_orca_executable() called in the state 'validated'
\* or 'running' returns in its first step with nothing changed; the probes
\* are run only in the state 'unvalidated'; and a validation that raises
\* has changed nothing of the status, which is 'unvalidated' with no
\* executable and no version.
C18_ValidateNoOpOrFail ==
    /\ [][(pc[Main] = "v_check" /\ op[Main].name = "validate"
             /\ status.state # "unvalidated")
          => /\ pc'[Main] = "returned"
             /\ UNCHANGED <<props, status, orca_state, lock, procs, tpc,
                            files>>]_vars
    /\ [](pc[Main] = "v_probe" => status.state = "unvalidated")
    /\ [][(pc[Main] \in InValidate /\ pc'[Main] = "raised")
          => /\ status' = status
             /\ status'.state = "unvalidated"
             /\ status'.executable = None
             /\ status'.version = None]_vars
    /\ []((pc[Main] = "raised" /\ hist.call.name = "validate")
            => /\ hist.status.state = "unvalidated"
               /\ status = hist.status)

\* validate_orca_executable() has returned from a call made while the
\* server was running, and the status is what it was.
C18_Witness ==
    /\ pc[Main] = "returned"
    /\ hist.call.name = "validate"
    /\ hist.status.state = "running"
    /\ status = hist.status
\* C19 (Spec): status.state changes only from 'unvalidated' to 'validated',
\* from 'validated' to 'running', from 'running' to 'validated', and from
\* any state to 'unvalidated'.
C19_StateProgression ==
    [][status'.state # status.state =>
         \/ status'.state = "unvalidated"
         \/ status.state = "unvalidated" /\ status'.state = "validated"
         \/ status.state = "validated" /\ status'.state = "running"
         \/ status.state = "running" /\ status'.state = "validated"]_vars
\* C20 (SeqSpec): a call of shutdown_orca_server() always returns, also
\* when terminating the process fails, and it leaves no process handle and
\* no timer, and the status 'validated' or 'unvalidated' with pid, port and
\* command None.
C20_TerminationFailureSwallowed ==
    (hist.call.name = "shutdown" /\ pc[Main] \in {"returned", "raised"})
      => /\ pc[Main] = "returned"
         /\ orca_state.proc = None
         /\ orca_state.shutdown_timer = None
         /\ status.state # "running"
         /\ status.pid = None /\ status.port = None /\ status.command = None
\* C21 (SeqSpec): when ensure_orca_server() raises, from the validation or
\* from the spawn, nothing of a launch remains: no process handle, no timer
\* thread, no active port, a status 'unvalidated' or 'validated' with pid,
\* port and command None, and the lock is free.
C21_FailedLaunchLeavesNothing ==
    (hist.call.name = "ensure" /\ pc[Main] = "raised")
      => /\ orca_state.proc = None
         /\ orca_state.shutdown_timer = None
         /\ LiveTimers = {}
         /\ orca_state.port = None
         /\ status.state \in {"unvalidated", "validated"}
         /\ status.pid = None /\ status.port = None /\ status.command = None
         /\ lock = 0
\* C22 (ReapSpec): when shutdown_orca_server() returns from stopping a
\* running server, the process it stopped and its descendants have exited,
\* the handle and the timer are cleared, and the status is 'validated' with
\* pid, port and command None and the executable and version it had.
C22_ShutdownReapsAll ==
    (/\ hist.call.name = "shutdown"
     /\ pc[Main] = "returned"
     /\ hist.status.state = "running")
    => /\ procs[Val(hist.status.pid)] = "none"
       /\ orca_state.proc = None
       /\ orca_state.shutdown_timer = None
       /\ status = [hist.status EXCEPT !.state = "validated", !.pid = None,
                                       !.port = None, !.command = None]
\* The last call is to_image with a format that _validate_coerce_format
\* rejects.
InvalidFormatCall ==
    /\ hist.call.name = "to_image"
    /\ hist.call.val # None
    /\ ~_validate_coerce_format(hist.call.val).ok

\* C23 (RenderSpec): a call of to_image with an invalid format sends no
\* request and launches no server: status.pid stays what it was at the call.
C23_InvalidFormatTouchesNothing ==
    InvalidFormatCall =>
      /\ pc[Main] # "i_request"
      /\ status.pid = hist.status.pid
\* The configuration file exists and holds a JSON object.
ValidFile ==
    config_file \in DOMAIN files /\ Parsed(files[config_file]) = "dict"

\* C24 (ConfigSpec): reload() with a file that is missing, unreadable or not
\* JSON returns and changes no property; with a file that holds a JSON
\* object it assigns no key that is not the name of a property, and leaves
\* or replaces by the value of the file each property it had.
C24_ReloadTolerant ==
    [][pc[Main] = "c_reload" =>
         /\ (\/ config_file \notin DOMAIN files
             \/ loc'[Main].content = None
             \/ Parsed(files[config_file]) = "invalid")
            => pc'[Main] = "returned" /\ props' = props
         /\ DOMAIN props' \subseteq PropNames
         /\ DOMAIN props' = DOMAIN props
         /\ ValidFile =>
              LET orca_props == JsonLoads(Val(files[config_file])[2])
              IN  /\ pc'[Main] = "returned"
                  /\ \A k \in DOMAIN props :
                       \/ props'[k] = props[k]
                       \/ k \in DOMAIN orca_props /\ props'[k] = orca_props[k]
         /\ UNCHANGED <<status, orca_state, procs, files>>]_vars

\* reload() has replaced the port by the one of a file that has a key that
\* is no property as well.
C24_Witness ==
    /\ pc[Main] = "returned"
    /\ hist.call.name = "reload"
    /\ ValidFile
    /\ "colour" \in DOMAIN Val(files[config_file])[2]
    /\ "port" \in DOMAIN hist.props /\ hist.props["port"] = Some(8080)
    /\ props["port"] = Some(9000)
    /\ "colour" \notin DOMAIN props
\* C25 (ExitSpec): when the exit hook has run, no process that
\* ensure_orca_server spawned is alive.
C25_NoServerAfterExit ==
    (Exiting /\ pc[Main] \in {"returned", "raised"}) => Alive = {}
\* C26 (Spec): whenever __orca_lock is free, status.state is 'running'
\* exactly when there is a process handle, and then status.pid and
\* status.port are the pid of the handle and the active port.
C26_RunningIffHandle ==
    lock = 0 =>
      /\ status.state = "running" <=> orca_state.proc # None
      /\ orca_state.proc # None =>
           status.pid = orca_state.proc /\ status.port = orca_state.port
\* C27 (SeqSpec): the executable of the command a server was launched
\* with is the one validate_orca_executable resolved and probed,
\* status.executable.
C27_LaunchesValidatedExecutable ==
    status.command # None =>
      /\ status.executable # None
      /\ Which(Val(status.command)[1]) = Val(status.executable)
\* C28 (Spec): every spawned process that has not exited is the one
\* __orca_state['proc'] references; the handle is set only when it is None,
\* to a process spawned in that step, and is cleared only in a step that
\* leaves its process exited.
C28_NoOrphanedServer ==
    /\ [](\A p \in Alive : orca_state.proc = Some(p))
    /\ [][orca_state'.proc # orca_state.proc =>
            \/ /\ orca_state.proc = None
               /\ procs[Val(orca_state'.proc)] = "none"
               /\ procs'[Val(orca_state'.proc)] = "alive"
            \/ /\ orca_state'.proc = None
               /\ procs[Val(orca_state.proc)] = "alive"
               /\ procs'[Val(orca_state.proc)] = "none"]_vars

\* A shutdown has terminated the server and cleared the handle while
\* another thread waits for the lock to launch.
C28_Witness ==
    /\ \E t \in Callers : pc[t] = "s_status"
    /\ \E t \in Callers : pc[t] = "e_lock"
    /\ orca_state.proc = None
    /\ Alive = {}
    /\ status.pid # None
\* The timers that are started and have neither fired nor been cancelled.
Pending == {k \in 1..MaxTimers : tpc[k] = "waiting"}

Critical == {"e_spawn", "e_timer", "s_status"}
Blocked == {"e_lock", "s_lock"}

\* The next step of the thread that holds the lock.
HolderStep ==
    /\ IF lock > 0
       THEN EnsureSpawn(lock) \/ EnsureTimer(lock) \/ ShutdownStatus(lock)
       ELSE ShutdownStatus(lock)
    /\ UNCHANGED hist

\* C30 (Spec): the thread that holds __orca_lock is inside a with block, so
\* it is not waiting for the lock and has not left its function; it always
\* has a step to take; and the lock changes hands only by being released:
\* a thread waiting for the lock is never blocked for good.
C30_LockNeverDeadlocks ==
    /\ [](lock # 0 => PcOf(lock) \in Critical /\ ENABLED HolderStep)
    /\ [](lock = 0 =>
            /\ \A t \in Callers : pc[t] \notin Critical
            /\ \A k \in 1..MaxTimers : tpc[k] \notin Critical)
    /\ [][lock' # lock => lock = 0 \/ lock' = 0]_vars

\* A thread waits for the lock that another thread holds.
C30_Witness ==
    /\ lock # 0
    /\ \E t \in Callers : pc[t] \in Blocked /\ lock # t
====
